---- MODULE Spec2Model ----
(***************************************************************************)
(* A model of the dv_midterm repository: the LDA pipeline of               *)
(* src/lda_model.py (tokenizer, empty-document filter, topic distribution  *)
(* matrix, reporting functions) and the Doc2Vec script of                  *)
(* src/doc2vec_model.py.                                                   *)
(*                                                                         *)
(* Texts are sequences of one-character strings.  Proportions are integers *)
(* in units of 10^-5 (100000 is 1.0).                                      *)
(***************************************************************************)
EXTENDS Integers, Sequences, FiniteSets, TLC

VARIABLES
    \* ---- tokenizer run (sent_to_words on its own)
    sentences,      \* the raw documents given to sent_to_words
    tok_pc,         \* "start" | "done"
    tok_out,        \* list(sent_to_words(sentences))
    \* ---- src/doc2vec_model.py, the module-level script
    vocab1,         \* vcb.vocab1["data"]: the lines of the corpus
    d2v_pc,         \* position in the script
    train_data,     \* the tagged documents
    model,          \* the Doc2Vec object, a record, or "none"
    disk,           \* the file at the fixed path: a saved model or "none"
    model_stored,   \* the model loaded back, or "none"
    \* ---- src/lda_model.py, __main__ (one of its two data sets)
    dats,           \* fetch_data()[0 or 1]: [data: raw texts, target: labels]
    pc,             \* position in __main__
    data,           \* the tokenized documents that have tokens
    kept_target,    \* getDataHayle's target, as handed to create_new_labels
    target,         \* the labels create_new_labels returned
    lda_model,      \* the trained model
    corpus,         \* the bag-of-words corpus
    mat,            \* the topic distribution matrix
    df,             \* df_dominant_topic: [ok, rows]
    out             \* what the last reporting call drew or wrote

tokVars == <<sentences, tok_pc, tok_out>>
d2vVars == <<vocab1, d2v_pc, train_data, model, disk, model_stored>>
ldaVars == <<dats, pc, data, kept_target, target, lda_model, corpus, mat, df, out>>
vars == <<tokVars, d2vVars, ldaVars>>

----------------------------------------------------------------------------
(* Bounds of the model *)

\* the number of pieces (text fragments and document breaks) of an input
MaxItems == 4

Range(f) == {f[x] : x \in DOMAIN f}

----------------------------------------------------------------------------
(* Characters *)

UpperLetters == {"D", "E^"}          \* "E^" stands for an accented capital E
AccentedLower == {"e^"}              \* "e^" stands for an accented small e
LowerLetters ==
    {"a", "c", "d", "e", "g", "h", "i", "l", "n", "o", "r", "s", "t", "u", "w"}
Digits == {"1"}
Whitespace == {" "}
Underscore == {"_"}
Punctuation == {",", "!"} \cup Underscore

\* str.lower()
Lower(c) ==
    CASE c = "D" -> "d"
      [] c = "E^" -> "e^"
      [] OTHER -> c

\* gensim.utils.deaccent
Deaccent(c) ==
    CASE c = "e^" -> "e"
      [] c = "E^" -> "E"
      [] OTHER -> c

\* \w: the letters, the digits and the underscore
WordChars ==
    LowerLetters \cup UpperLetters \cup AccentedLower \cup Digits \cup Underscore

\* PAT_ALPHABETIC, ((?![\d])\w)+ : a word character that is no digit
IsWordChar(c) == c \in WordChars /\ c \notin Digits

\* tokens shorter than min_len or longer than max_len are dropped
MinTokenLen == 2
MaxTokenLen == 15

RECURSIVE SimpleTokenize(_, _, _, _)
\* the maximal runs of word characters of s, left to right
SimpleTokenize(s, i, cur, acc) ==
    IF i > Len(s)
    THEN IF cur = <<>> THEN acc ELSE Append(acc, cur)
    ELSE IF IsWordChar(s[i])
         THEN SimpleTokenize(s, i + 1, Append(cur, s[i]), acc)
         ELSE SimpleTokenize(s, i + 1, <<>>,
                             IF cur = <<>> THEN acc ELSE Append(acc, cur))

\* gensim.utils.tokenize(text, lower=True, deacc=True): lower-case, strip the
\* accents, then split into tokens
Normalize(text) == [i \in 1..Len(text) |-> Deaccent(Lower(text[i]))]

SelectTokens(toks) ==
    SelectSeq(toks, LAMBDA t : /\ MinTokenLen <= Len(t)
                               /\ Len(t) <= MaxTokenLen
                               /\ t[1] # "_")

\* gensim.utils.simple_preprocess(str(sentence), deacc=True)
simple_preprocess(text) ==
    SelectTokens(SimpleTokenize(Normalize(text), 1, <<>>, <<>>))

\* a tokenizer that drops the documents without tokens itself
sent_to_words_dropping(docs) ==
    SelectSeq([i \in 1..Len(docs) |-> simple_preprocess(docs[i])],
              LAMBDA t : t # <<>>)

\* sent_to_words, consumed by list(): one token sequence per document
sent_to_words(docs) ==
    [i \in 1..Len(docs) |-> simple_preprocess(docs[i])]

----------------------------------------------------------------------------
(* Inputs: lists of raw texts *)

Dogs == <<"D", "o", "g", "s">>
CommaSpace == <<",", " ">>
RunningBang == <<"r", "u", "n", "n", "i", "n", "g", "!">>
DogsRunning == Dogs \o CommaSpace \o RunningBang     \* "Dogs, running!"

DocBreak == <<"#">>     \* not a character: the end of one document
Pieces == {Dogs, CommaSpace, RunningBang, <<"E^">>, <<"_">>, <<"1">>}

RECURSIVE SeqsUpTo(_, _)
SeqsUpTo(S, n) ==
    IF n = 0 THEN {<<>>}
    ELSE LET shorter == SeqsUpTo(S, n - 1)
         IN  shorter \cup {Append(s, x) : s \in {t \in shorter : Len(t) = n - 1},
                                           x \in S}

RECURSIVE SplitDocs(_, _, _, _)
\* the documents of a sequence of pieces: a DocBreak ends a document
SplitDocs(ps, i, cur, acc) ==
    IF i > Len(ps) THEN Append(acc, cur)
    ELSE IF ps[i] = DocBreak
         THEN SplitDocs(ps, i + 1, <<>>, Append(acc, cur))
         ELSE SplitDocs(ps, i + 1, cur \o ps[i], acc)

\* every list of documents written with at most MaxItems pieces and breaks,
\* and the empty list
TextLists ==
    {<<>>} \cup {SplitDocs(ps, 1, <<>>, <<>>) :
                    ps \in SeqsUpTo(Pieces \cup {DocBreak}, MaxItems)}

----------------------------------------------------------------------------
(* The tokenizer run *)

TokIdle == /\ sentences = <<>> /\ tok_pc = "idle" /\ tok_out = <<>>
D2VIdle ==
    /\ vocab1 = <<>> /\ d2v_pc = "idle" /\ train_data = <<>>
    /\ model = "none" /\ disk = "none" /\ model_stored = "none"
NoModel == [num_topics |-> 0, per_word_topics |-> FALSE, infer |-> <<>>]
NoFrame == [ok |-> FALSE, rows |-> <<>>]
NoOutput == [kind |-> "none"]
LdaIdle ==
    /\ dats = [data |-> <<>>, target |-> <<>>] /\ pc = "idle"
    /\ data = <<>> /\ kept_target = <<>> /\ target = <<>>
    /\ lda_model = NoModel /\ corpus = <<>> /\ mat = <<>>
    /\ df = NoFrame /\ out = NoOutput

InitTok ==
    /\ sentences \in TextLists
    /\ tok_pc = "start"
    /\ tok_out = <<>>
    /\ D2VIdle
    /\ LdaIdle

TokRun ==
    /\ tok_pc = "start"
    /\ tok_out' = sent_to_words(sentences)
    /\ tok_pc' = "done"
    /\ UNCHANGED <<sentences, d2vVars, ldaVars>>

NextTok == TokRun
SpecTok == InitTok /\ [][NextTok]_vars

----------------------------------------------------------------------------
(* src/doc2vec_model.py *)

RECURSIVE SplitWords(_, _, _, _)
\* str.split(): the maximal runs of characters that are not whitespace
SplitWords(s, i, cur, acc) ==
    IF i > Len(s)
    THEN IF cur = <<>> THEN acc ELSE Append(acc, cur)
    ELSE IF s[i] \in Whitespace
         THEN SplitWords(s, i + 1, <<>>,
                         IF cur = <<>> THEN acc ELSE Append(acc, cur))
         ELSE SplitWords(s, i + 1, Append(cur, s[i]), acc)

Split(line) == SplitWords(line, 1, <<>>, <<>>)

\* gensim.models.doc2vec.TaggedDocument(words, tags)
TaggedDocument(words, tags) == [words |-> words, tags |-> tags]

RECURSIVE TagLoopCarry(_, _, _, _, _)
\* the loop with sentence never rebound: the words of earlier lines stay
TagLoopCarry(lines, k, sentence, i, documents) ==
    IF k > Len(lines) THEN documents
    ELSE LET filled == sentence \o Split(lines[k])
         IN  TagLoopCarry(lines, k + 1, filled, i + 1,
                          Append(documents, TaggedDocument(filled, <<i>>)))

create_tagged_documents_carry(lines) == TagLoopCarry(lines, 1, <<>>, 0, <<>>)

RECURSIVE TagLoop(_, _, _, _, _)
\* the loop of create_tagged_documents from line k of the data on: the words of
\* the line are appended to sentence, the tagged document takes sentence and
\* the tag i, and sentence is rebound to a new empty list
TagLoop(lines, k, sentence, i, documents) ==
    IF k > Len(lines) THEN documents
    ELSE LET filled == sentence \o Split(lines[k])
         IN  TagLoop(lines, k + 1, <<>>, i + 1,
                     Append(documents, TaggedDocument(filled, <<i>>)))

create_tagged_documents(lines) == TagLoop(lines, 1, <<>>, 0, <<>>)

InitD2V ==
    /\ vocab1 \in TextLists
    /\ d2v_pc = "start"
    /\ train_data = <<>>
    /\ model = "none"
    /\ disk = "none"
    /\ model_stored = "none"
    /\ TokIdle
    /\ LdaIdle

\* line 23
D2VCreateTagged ==
    /\ d2v_pc = "start"
    /\ train_data' = create_tagged_documents(vocab1)
    /\ d2v_pc' = "tagged"
    /\ UNCHANGED <<vocab1, model, disk, model_stored, tokVars, ldaVars>>

\* line 26: a new model has no vocabulary and is not trained
D2VInitModel ==
    /\ d2v_pc = "tagged"
    /\ model' = [vector_size |-> 5, min_count |-> 5, epochs |-> 20,
                 vocab_built |-> FALSE, corpus_count |-> 0, trained |-> FALSE]
    /\ d2v_pc' = "init"
    /\ UNCHANGED <<vocab1, train_data, disk, model_stored, tokVars, ldaVars>>

\* line 27
D2VBuildVocab ==
    /\ d2v_pc = "init"
    /\ model' = [model EXCEPT !.vocab_built = TRUE,
                              !.corpus_count = Len(train_data)]
    /\ d2v_pc' = "vocab"
    /\ UNCHANGED <<vocab1, train_data, disk, model_stored, tokVars, ldaVars>>

\* line 28: the script goes from build_vocab straight to save
D2VSave ==
    /\ d2v_pc = "vocab"
    /\ disk' = model
    /\ d2v_pc' = "saved"
    /\ UNCHANGED <<vocab1, train_data, model, model_stored, tokVars, ldaVars>>

\* line 29
D2VLoad ==
    /\ d2v_pc = "saved"
    /\ model_stored' = disk
    /\ d2v_pc' = "loaded"
    /\ UNCHANGED <<vocab1, train_data, model, disk, tokVars, ldaVars>>

NextD2V ==
    \/ D2VCreateTagged
    \/ D2VInitModel
    \/ D2VBuildVocab
    \/ D2VSave
    \/ D2VLoad

SpecD2V == InitD2V /\ [][NextD2V]_vars

----------------------------------------------------------------------------
(* src/lda_model.py: the data, the model, the matrix *)

\* the most raw documents of a data set
MaxDocs == 3

\* num_topics of buildModel
NumTopics == 12
\* 1.0, in units of 10^-5
Scale == 10 ^ 5

CatDogCat ==
    <<"c", "a", "t", " ", "d", "o", "g", " ", "c", "a", "t">>
CarEngineWheel ==
    <<"c", "a", "r", " ", "e", "n", "g", "i", "n", "e", " ",
      "w", "h", "e", "e", "l">>
SampleTexts == {CatDogCat, CarEngineWheel, <<>>, <<"!">>}
\* the label lists of n documents: labels rising or falling along the list,
\* so that no two documents of a data set share a label
SampleTargets(n) == {[i \in 1..n |-> 3 + i], [i \in 1..n |-> 19 - i]}

\* the data sets fetch_data may return: texts with one label each
DataSets ==
    UNION {{[data |-> d, target |-> t] : d \in [1..n -> SampleTexts],
                                         t \in SampleTargets(n)} :
           n \in 0..MaxDocs}

RECURSIVE KeepLoopAllLabels(_, _, _, _, _)
\* the loop with target.append outside the test: every label is kept
KeepLoopAllLabels(sents, labels, i, d, t) ==
    IF i > Len(sents) THEN [data |-> d, target |-> t]
    ELSE IF sents[i] # <<>>
         THEN KeepLoopAllLabels(sents, labels, i + 1, Append(d, sents[i]),
                                Append(t, labels[i]))
         ELSE KeepLoopAllLabels(sents, labels, i + 1, d, Append(t, labels[i]))

KeepNonEmptyAllLabels(sents, labels) ==
    KeepLoopAllLabels(sents, labels, 1, <<>>, <<>>)

RECURSIVE KeepLoop(_, _, _, _, _)
\* the loop of getDataHayle from document i on: a document with tokens is
\* appended to data and its label to target
KeepLoop(sents, labels, i, d, t) ==
    IF i > Len(sents) THEN [data |-> d, target |-> t]
    ELSE IF sents[i] # <<>>
         THEN KeepLoop(sents, labels, i + 1, Append(d, sents[i]),
                       Append(t, labels[i]))
         ELSE KeepLoop(sents, labels, i + 1, d, t)

KeepNonEmpty(sents, labels) == KeepLoop(sents, labels, 1, <<>>, <<>>)

\* joining_the_sheeple.create_new_labels: a relabelling, label by label
create_new_labels(t) == [k \in 1..Len(t) |-> t[k] \div 2]

RECURSIVE BowLoop(_, _, _)
\* the (word, count) pairs of a document, a word standing for its id
BowLoop(text, k, bow) ==
    IF k > Len(text) THEN bow
    ELSE IF \E j \in 1..Len(bow) : bow[j][1] = text[k]
         THEN BowLoop(text, k + 1,
                      [j \in 1..Len(bow) |->
                          IF bow[j][1] = text[k]
                          THEN <<bow[j][1], bow[j][2] + 1>> ELSE bow[j]])
         ELSE BowLoop(text, k + 1, Append(bow, <<text[k], 1>>))

\* id2word.doc2bow(text)
doc2bow(text) == BowLoop(text, 1, <<>>)

\* corpora.Dictionary(data): the words of the documents
Dictionary(d) == UNION {Range(d[i]) : i \in 1..Len(d)}

\* what inference may return for a document: the (topic, proportion) pairs
\* above the threshold, and the topics of its words (word_topics[j] for the
\* words j, j + Len(word_topics), ...)
SampleInfer ==
    { [topic_percs |-> <<>>, word_topics |-> << <<>> >>],
      [topic_percs |-> << <<3, 25006>>, <<9, 25006>> >>,
       word_topics |-> << <<9, 3>>, <<>> >>],
      [topic_percs |-> << <<5, 12344>>, <<11, 60006>>, <<10, 20001>> >>,
       word_topics |-> << <<11>>, <<10, 5>> >>] }

\* the models training may produce for a corpus
TrainedModels(c) ==
    {[num_topics |-> NumTopics, per_word_topics |-> TRUE, infer |-> f] :
        f \in [Range(c) -> SampleInfer]}

\* lda_model[doc]: (topic_percs, wordid_topics) of a model with
\* per_word_topics, as buildModel makes it
Infer(lda, doc) ==
    LET r == lda.infer[doc]
    IN  [topic_percs |-> r.topic_percs,
         wordid_topics |->
            [j \in 1..Len(doc) |->
                <<doc[j][1],
                  r.word_topics[((j - 1) % Len(r.word_topics)) + 1]>>]]

RECURSIVE WriteScores(_, _, _)
\* for tp, score in pairs[k..]: topicScore[tp] = score
WriteScores(pairs, k, topicScore) ==
    IF k > Len(pairs) THEN topicScore
    ELSE WriteScores(pairs, k + 1,
                     [topicScore EXCEPT ![pairs[k][1]] = pairs[k][2]])

\* np.zeros(n), indexed from 0
Zeros(n) == [t \in 0..(n - 1) |-> 0]

RECURSIVE MatLoopShared(_, _, _, _, _)
\* the loop with topicScore made once, before the loop
MatLoopShared(lda, c, k, topicScore, topic_matrix) ==
    IF k > Len(c) THEN topic_matrix
    ELSE LET row == WriteScores(Infer(lda, c[k]).topic_percs, 1, topicScore)
         IN  MatLoopShared(lda, c, k + 1, row, Append(topic_matrix, row))

getLDATopicDistMatrix_shared(lda, c) ==
    MatLoopShared(lda, c, 1, Zeros(lda.num_topics), <<>>)

RECURSIVE MatLoopFront(_, _, _, _)
\* the loop with each row put at the front of the matrix
MatLoopFront(lda, c, k, topic_matrix) ==
    IF k > Len(c) THEN topic_matrix
    ELSE MatLoopFront(lda, c, k + 1,
            <<WriteScores(Infer(lda, c[k]).topic_percs, 1,
                          Zeros(lda.num_topics))>> \o topic_matrix)

getLDATopicDistMatrix_front(lda, c) == MatLoopFront(lda, c, 1, <<>>)

RECURSIVE MatLoop(_, _, _, _)
\* the loop of getLDATopicDistMatrix from document k on
MatLoop(lda, c, k, topic_matrix) ==
    IF k > Len(c) THEN topic_matrix
    ELSE MatLoop(lda, c, k + 1,
            Append(topic_matrix,
                   WriteScores(Infer(lda, c[k]).topic_percs, 1,
                               Zeros(lda.num_topics))))

getLDATopicDistMatrix(lda, c) == MatLoop(lda, c, 1, <<>>)

Init ==
    /\ dats \in DataSets
    /\ pc = "start"
    /\ data = <<>>
    /\ kept_target = <<>>
    /\ target = <<>>
    /\ lda_model = NoModel
    /\ corpus = <<>>
    /\ mat = <<>>
    /\ df = NoFrame
    /\ out = NoOutput
    /\ TokIdle
    /\ D2VIdle

\* lines 55-69 (and 358)
getDataHayle ==
    /\ pc = "start"
    /\ LET kept == KeepNonEmpty(sent_to_words(dats.data), dats.target)
       IN  /\ data' = kept.data
           /\ kept_target' = kept.target
           /\ target' = create_new_labels(kept.target)
    /\ pc' = "loaded"
    /\ UNCHANGED <<dats, lda_model, corpus, mat, df, out, tokVars, d2vVars>>

\* lines 84-106 (and 361): training fails on a collection without terms
buildModel ==
    /\ pc = "loaded"
    /\ IF Dictionary(data) = {}
       THEN /\ pc' = "fault"
            /\ UNCHANGED <<lda_model, corpus>>
       ELSE /\ corpus' = [i \in 1..Len(data) |-> doc2bow(data[i])]
            /\ lda_model' \in TrainedModels(corpus')
            /\ pc' = "built"
    /\ UNCHANGED <<dats, data, kept_target, target, mat, df, out,
                   tokVars, d2vVars>>

\* lines 338-350 (and 364)
topicDistMatrix ==
    /\ pc \in {"built", "report"}
    /\ mat' = getLDATopicDistMatrix(lda_model, corpus)
    /\ pc' = "report"
    /\ UNCHANGED <<dats, data, kept_target, target, lda_model, corpus, df, out,
                   tokVars, d2vVars>>

----------------------------------------------------------------------------
(* src/lda_model.py: the reporting functions *)

\* the default of sentences_chart's end
DefaultEnd == 13
\* len(cols), len(mycolors): the colours of mcolors.TABLEAU_COLORS
PaletteLen == 10
\* the words of a document that sentences_chart draws (j < 14)
MaxWordsDrawn == 14
\* a missing value of a data frame
NaN == -1
NaNText == << <<"NaN">> >>

Min(a, b) == IF a < b THEN a ELSE b
Max(a, b) == IF a > b THEN a ELSE b

RECURSIVE InsertDesc(_, _, _)
\* pair x put into the pairs s[k..], sorted by falling proportion, behind
\* every pair whose proportion is not smaller
InsertDesc(s, k, x) ==
    IF k > Len(s) THEN Append(s, x)
    ELSE IF s[k][2] >= x[2] THEN InsertDesc(s, k + 1, x)
         ELSE SubSeq(s, 1, k - 1) \o <<x>> \o SubSeq(s, k, Len(s))

RECURSIVE SortLoop(_, _, _)
SortLoop(row, k, acc) ==
    IF k > Len(row) THEN acc
    ELSE SortLoop(row, k + 1, InsertDesc(acc, 1, row[k]))

\* sorted(row, key=lambda x: (x[1]), reverse=True): stable
SortedDesc(row) == SortLoop(row, 1, <<>>)

\* round(p, 4) of a proportion in units of 10^-5, a half going to the even
\* neighbour; the result in the same units
Round4(p) ==
    LET q == p \div 10
        r == p % 10
    IN  10 * (IF r < 5 THEN q
              ELSE IF r > 5 THEN q + 1
              ELSE IF q % 2 = 0 THEN q ELSE q + 1)

\* ldamodel.show_topic(topic_num): the keywords of a topic, named by it
show_topic(lda, topic_num) == <<"keywords of topic", topic_num>>

\* lda_model.show_topics(formatted=False, num_topics=n): the topics
\* 0 .. num_topics - 1 in order, when n is not below the model's num_topics
show_topics(lda, n) == [k \in 1..Min(n, lda.num_topics) |-> k - 1]

RECURSIVE TopicRows(_, _, _, _)
\* the first loop of format_topics_sentences from document k on
\* (ldamodel.per_word_topics is set, so row is row_list[0]): the first pair
\* of the sorted row, if there is one, makes a row of sent_topics_df
TopicRows(lda, c, k, rows) ==
    IF k > Len(c) THEN rows
    ELSE LET row_list == Infer(lda, c[k])
             row == SortedDesc(row_list.topic_percs)
         IN  TopicRows(lda, c, k + 1,
                IF row = <<>> THEN rows
                ELSE Append(rows,
                        [Dominant_Topic |-> row[1][1],
                         Perc_Contribution |-> Round4(row[1][2]),
                         Topic_Keywords |-> show_topic(lda, row[1][1])]))

\* the rows joined with the texts on their index (pd.concat, axis=1) and
\* numbered (reset_index)
ConcatFrame(sent_topics, d) ==
    [i \in 1..Max(Len(sent_topics), Len(d)) |->
        [Document_No |-> i - 1,
         Dominant_Topic |->
            IF i <= Len(sent_topics) THEN sent_topics[i].Dominant_Topic ELSE NaN,
         Topic_Perc_Contrib |->
            IF i <= Len(sent_topics) THEN sent_topics[i].Perc_Contribution
            ELSE NaN,
         Keywords |->
            IF i <= Len(sent_topics) THEN sent_topics[i].Topic_Keywords ELSE NaN,
         Text |-> IF i <= Len(d) THEN d[i] ELSE NaNText]]

\* format_topics_sentences: naming the three columns of a frame without
\* rows (and so without columns) raises ValueError
format_topics_sentences(lda, c, d) ==
    LET sent_topics == TopicRows(lda, c, 1, <<>>)
    IN  IF sent_topics = <<>>
        THEN [ok |-> FALSE, rows |-> <<>>]
        ELSE [ok |-> TRUE, rows |-> ConcatFrame(sent_topics, d)]

\* the panels drawn before the first one with an index out of range, and
\* that one
RECURSIVE UpToFault(_, _, _)
UpToFault(panels, k, acc) ==
    IF k > Len(panels) THEN acc
    ELSE IF panels[k].fault THEN Append(acc, panels[k])
         ELSE UpToFault(panels, k + 1, Append(acc, panels[k]))

Drawn(panels) ==
    LET seen == UpToFault(panels, 1, <<>>)
    IN  [panels |-> seen,
         fault |-> \E k \in 1..Len(seen) : seen[k].fault]

\* whether 0 <= ix < n: a negative index is not used anywhere
InRange(ix, n) == 0 <= ix /\ ix < n

\* makeWordsPerDocVisualization: 2 figures (j) of 2 x 3 axes (i)
makeWordsPerDocVisualization(frame) ==
    Drawn([p \in 1..(2 * 6) |->
        LET j == (p - 1) \div 6
            i == (p - 1) % 6
            idx == i + j * 6
            colour == idx % PaletteLen
        IN  [fig |-> j, idx |-> idx, colour |-> colour, topic_ix |-> NaN,
             doc_lens |-> [r \in 1..Len(SelectSeq(frame.rows,
                                  LAMBDA x : x.Dominant_Topic = idx)) |->
                             Len(SelectSeq(frame.rows,
                                  LAMBDA x : x.Dominant_Topic = idx)[r].Text)],
             fault |-> ~InRange(colour, PaletteLen)]])

\* the word clouds with the stride of the 2 x 3 figures, idx = i + j * 6
makeWordCloudVisualization_stride6(lda, words_in_cloud) ==
    LET topics == show_topics(lda, 12)
    IN  Drawn([p \in 1..(3 * 4) |->
            LET j == (p - 1) \div 4
                i == (p - 1) % 4
                idx == i + j * 6
            IN  [fig |-> j, idx |-> idx, colour |-> i, topic_ix |-> idx,
                 fault |-> ~InRange(idx, Len(topics))
                             \/ ~InRange(i, PaletteLen)]])

\* makeWordCloudVisualization: 3 figures (j) of 2 x 2 axes (i); the colour
\* function reads cols[i] with the i of the panel being drawn
makeWordCloudVisualization(lda, words_in_cloud) ==
    LET topics == show_topics(lda, 12)
    IN  Drawn([p \in 1..(3 * 4) |->
            LET j == (p - 1) \div 4
                i == (p - 1) % 4
                idx == i + j * 4
            IN  [fig |-> j, idx |-> idx, colour |-> i, topic_ix |-> idx,
                 fault |-> ~InRange(idx, Len(topics))
                             \/ ~InRange(i, PaletteLen)]])

\* makeWordWeightImportanceVisualization: 3 figures (j) of 2 x 2 axes (i);
\* the bars of panel idx are the words of the topics with topic_id = idx
makeWordWeightImportanceVisualization(lda, d) ==
    LET topics == show_topics(lda, 12)
    IN  Drawn([p \in 1..(3 * 4) |->
            LET j == (p - 1) \div 4
                i == (p - 1) % 4
                idx == i + j * 4
                colour == idx % PaletteLen
            IN  [fig |-> j, idx |-> idx, colour |-> colour, topic_ix |-> NaN,
                 bars |-> {t \in Range(topics) : t = idx},
                 fault |-> ~InRange(colour, PaletteLen)]])

\* word_dominanttopic: the first topic of every word that has topics
WordDominantTopic(wordid_topics) ==
    LET with == SelectSeq(wordid_topics, LAMBDA wt : Len(wt[2]) > 0)
    IN  [j \in 1..Len(with) |-> <<with[j][1], with[j][2][1]>>]

\* one panel of sentences_chart, i > 0, for corp of length n
ChartPanel(lda, corp, i, start) ==
    IF ~InRange(i - 1, Len(corp))
    THEN [doc |-> start + i - 1, frame |-> NaN, words |-> <<>>, fault |-> TRUE]
    ELSE LET inf == Infer(lda, corp[i])
             word_dominanttopic == WordDominantTopic(inf.wordid_topics)
             topic_percs_sorted == SortedDesc(inf.topic_percs)
         IN  IF topic_percs_sorted = <<>>
             THEN [doc |-> start + i - 1, frame |-> NaN, words |-> <<>>,
                   fault |-> TRUE]
             ELSE IF ~InRange(topic_percs_sorted[1][1], PaletteLen)
             THEN [doc |-> start + i - 1, frame |-> topic_percs_sorted[1][1],
                   words |-> <<>>, fault |-> TRUE]
             ELSE [doc |-> start + i - 1, frame |-> topic_percs_sorted[1][1],
                   words |->
                      [j \in 1..Min(Len(word_dominanttopic), MaxWordsDrawn) |->
                          word_dominanttopic[j][2] % PaletteLen],
                   fault |-> FALSE]

\* sentences_chart(lda_model, corpus, start, end), 0 <= start < end: one
\* axes alone is no array and cannot be indexed
sentences_chart(lda, c, start, end) ==
    LET corp == SubSeq(c, start + 1, Min(end, Len(c)))
    IN  IF end - start < 2
        THEN [panels |-> <<>>, fault |-> TRUE]
        ELSE Drawn([i \in 1..(end - start - 1) |->
                       ChartPanel(lda, corp, i, start)])

reportFrame == <<dats, data, kept_target, target, lda_model, corpus, mat>>

\* line 370
makeJupiterVis ==
    /\ pc = "report"
    /\ out' = [kind |-> "makeJupiterVis", html |-> "LDA_Visualization.html"]
    /\ UNCHANGED <<pc, df, reportFrame, tokVars, d2vVars>>

\* line 372
printLDAStats ==
    /\ pc = "report"
    /\ out' = [kind |-> "printLDAStats",
               topics |-> show_topics(lda_model, 20)]
    /\ UNCHANGED <<pc, df, reportFrame, tokVars, d2vVars>>

\* line 374
formatTopicsSentences ==
    /\ pc = "report"
    /\ LET frame == format_topics_sentences(lda_model, corpus, data)
       IN  /\ out' = [kind |-> "format_topics_sentences", fault |-> ~frame.ok]
           /\ df' = IF frame.ok THEN frame ELSE df
           /\ pc' = IF frame.ok THEN "report" ELSE "fault"
    /\ UNCHANGED <<reportFrame, tokVars, d2vVars>>

Report(kind, drawn) ==
    /\ out' = [kind |-> kind, panels |-> drawn.panels, fault |-> drawn.fault]
    /\ pc' = IF drawn.fault THEN "fault" ELSE "report"

\* line 375
wordsPerDocVisualization ==
    /\ pc = "report"
    /\ df.ok
    /\ Report("makeWordsPerDocVisualization", makeWordsPerDocVisualization(df))
    /\ UNCHANGED <<df, reportFrame, tokVars, d2vVars>>

\* line 377
wordCloudVisualization ==
    /\ pc = "report"
    /\ Report("makeWordCloudVisualization",
              makeWordCloudVisualization(lda_model, 20))
    /\ UNCHANGED <<df, reportFrame, tokVars, d2vVars>>

\* line 379
wordWeightImportanceVisualization ==
    /\ pc = "report"
    /\ Report("makeWordWeightImportanceVisualization",
              makeWordWeightImportanceVisualization(lda_model, data))
    /\ UNCHANGED <<df, reportFrame, tokVars, d2vVars>>

\* the (start, end) given to sentences_chart: the default and a few others
ChartRanges == {<<0, DefaultEnd>>, <<0, 3>>, <<1, 4>>, <<0, 1>>}

\* sentences_chart that cuts the corpus itself down to the slice
sentencesChartCutting ==
    /\ pc = "report"
    /\ \E se \in ChartRanges :
          LET drawn == sentences_chart(lda_model, corpus, se[1], se[2])
          IN  /\ out' = [kind |-> "sentences_chart", start |-> se[1],
                         end |-> se[2], panels |-> drawn.panels,
                         fault |-> drawn.fault]
              /\ pc' = IF drawn.fault THEN "fault" ELSE "report"
              /\ corpus' = SubSeq(corpus, se[1] + 1, Min(se[2], Len(corpus)))
    /\ UNCHANGED <<df, dats, data, kept_target, target, lda_model, mat,
                   tokVars, d2vVars>>

\* line 381
sentencesChart ==
    /\ pc = "report"
    /\ \E se \in ChartRanges :
          LET drawn == sentences_chart(lda_model, corpus, se[1], se[2])
          IN  /\ out' = [kind |-> "sentences_chart", start |-> se[1],
                         end |-> se[2], panels |-> drawn.panels,
                         fault |-> drawn.fault]
              /\ pc' = IF drawn.fault THEN "fault" ELSE "report"
    /\ UNCHANGED <<df, reportFrame, tokVars, d2vVars>>

Next ==
    \/ getDataHayle
    \/ buildModel
    \/ topicDistMatrix
    \/ makeJupiterVis
    \/ printLDAStats
    \/ formatTopicsSentences
    \/ wordsPerDocVisualization
    \/ wordCloudVisualization
    \/ wordWeightImportanceVisualization
    \/ sentencesChart

Spec == Init /\ [][Next]_vars

----------------------------------------------------------------------------
(* Helpers of the properties *)

RECURSIVE Flatten(_)
Flatten(ss) == IF ss = <<>> THEN <<>> ELSE Head(ss) \o Flatten(Tail(ss))

\* whether t is s[p .. p + Len(t) - 1]
MatchesAt(t, s, p) ==
    /\ p + Len(t) - 1 <= Len(s)
    /\ \A j \in 1..Len(t) : s[p + j - 1] = t[j]

RECURSIVE OccursInOrder(_, _, _)
\* whether the tokens occur in s one after the other, without overlap, from
\* position from on (the earliest occurrence of each is the best choice)
OccursInOrder(toks, s, from) ==
    IF toks = <<>> THEN TRUE
    ELSE LET cand == {p \in from..Len(s) : MatchesAt(Head(toks), s, p)}
         IN  /\ cand # {}
             /\ LET p == CHOOSE q \in cand : \A r \in cand : q <= r
                IN  OccursInOrder(Tail(toks), s, p + Len(Head(toks)))

\* the characters of the tokens of a token sequence
CharsOf(toks) == UNION {Range(t) : t \in Range(toks)}

----------------------------------------------------------------------------
(* C1, C2, C3: the data and the matrix *)

\* the topics of a list of (topic, proportion) pairs
TopicsOf(pairs) == {pairs[k][1] : k \in 1..Len(pairs)}

\* what C1 assumes of inference: distinct topic ids in 0..K-1, proportions
\* in [0,1]
WellFormed(pairs, K) ==
    /\ \A k \in 1..Len(pairs) :
          pairs[k][1] \in 0..(K - 1) /\ pairs[k][2] \in 0..Scale
    /\ \A k, m \in 1..Len(pairs) : pairs[k][1] = pairs[m][1] => k = m

\* C1: the row of every document of the corpus has exactly K = num_topics
\* entries, each in [0,1]; the entry of a topic that inference returned is
\* the proportion returned, and every other entry is exactly 0.
C1_RowContents ==
    pc = "report" =>
        /\ Len(mat) = Len(corpus)
        /\ \A i \in 1..Len(corpus) :
              LET pairs == Infer(lda_model, corpus[i]).topic_percs
                  K == lda_model.num_topics
              IN  WellFormed(pairs, K) =>
                    /\ DOMAIN mat[i] = 0..(K - 1)
                    /\ \A t \in 0..(K - 1) : mat[i][t] \in 0..Scale
                    /\ \A k \in 1..Len(pairs) : mat[i][pairs[k][1]] = pairs[k][2]
                    /\ \A t \in (0..(K - 1)) \ TopicsOf(pairs) : mat[i][t] = 0

\* a matrix with the row of a document that got three pairs, followed by the
\* row of a document that got two others: the columns of the three are 0 there
C1_Witness ==
    /\ pc = "report"
    /\ \E i \in 1..(Len(mat) - 1) :
          /\ Len(Infer(lda_model, corpus[i]).topic_percs) = 3
          /\ mat[i][11] = 60006
          /\ mat[i][0] = 0
          /\ Len(Infer(lda_model, corpus[i + 1]).topic_percs) = 2
          /\ mat[i + 1][3] = 25006
          /\ mat[i + 1][11] = 0

\* the dense row of a list of pairs
DenseRow(pairs, K) ==
    [t \in 0..(K - 1) |->
        IF t \in TopicsOf(pairs)
        THEN pairs[CHOOSE k \in 1..Len(pairs) : pairs[k][1] = t][2]
        ELSE 0]

\* the raw documents of the data set that have tokens
WithTokens == {i \in 1..Len(dats.data) : simple_preprocess(dats.data[i]) # <<>>}

\* C2: the matrix has as many rows as documents are left after the filter
\* (and as labels were returned with them), and row i is the row of
\* document i of the filtered corpus: no row is skipped, doubled or moved.
C2_RowAlignment ==
    pc = "report" =>
        /\ Len(mat) = Cardinality(WithTokens)
        /\ Len(mat) = Len(data)
        /\ Len(mat) = Len(target)
        /\ \A i \in 1..Len(data) :
              mat[i] = DenseRow(
                          Infer(lda_model, doc2bow(data[i])).topic_percs,
                          lda_model.num_topics)

\* three raw documents, one of them filtered out, and two rows that differ
C2_Witness ==
    /\ pc = "report"
    /\ Len(dats.data) = 3
    /\ Len(mat) = 2
    /\ mat[1] # mat[2]

\* the indices of the token sequences that are not empty, rising
KeptIndices(toks) ==
    SelectSeq([i \in 1..Len(toks) |-> i], LAMBDA i : toks[i] # <<>>)

\* C3: getDataHayle keeps exactly the documents with tokens, in their
\* order, and hands create_new_labels as many labels; the k-th document and
\* the k-th label come from the same original index.  The documents
\* ["cat dog cat", "car engine wheel", ""] leave 2 documents with the labels
\* of the 1st and the 2nd.
C3_Lockstep ==
    pc \notin {"idle", "start"} =>
        LET toks == [i \in 1..Len(dats.data) |->
                        simple_preprocess(dats.data[i])]
            kept == KeptIndices(toks)
        IN  /\ Len(data) = Len(kept)
            /\ Len(kept_target) = Len(data)
            /\ \A k \in 1..Len(kept) :
                  /\ data[k] = toks[kept[k]]
                  /\ data[k] # <<>>
                  /\ kept_target[k] = dats.target[kept[k]]
            /\ dats.data = <<CatDogCat, CarEngineWheel, <<>>>> =>
                  /\ Len(data) = 2
                  /\ kept_target = <<dats.target[1], dats.target[2]>>

\* the example of C3
C3_Witness ==
    /\ pc = "loaded"
    /\ dats.data = <<CatDogCat, CarEngineWheel, <<>>>>
    /\ Len(data) = 2
    /\ kept_target = <<dats.target[1], dats.target[2]>>

----------------------------------------------------------------------------
(* C6: the reporting functions change nothing *)

----------------------------------------------------------------------------
(* C8: format_topics_sentences *)

\* every document of the corpus got at least one pair
EveryDocHasPair ==
    \A i \in 1..Len(corpus) : Infer(lda_model, corpus[i]).topic_percs # <<>>

\* the table of C8: a row per document, row i with Document_No i, a topic
\* of maximal proportion among the pairs of document i, that proportion
\* rounded to 4 decimals, and document i of data
FrameContract ==
    /\ Len(df.rows) = Len(corpus)
    /\ \A i \in 1..Len(corpus) :
          LET row == df.rows[i]
              pairs == Infer(lda_model, corpus[i]).topic_percs
          IN  /\ row.Document_No = i - 1
              /\ row.Text = data[i]
              /\ \E k \in 1..Len(pairs) :
                    /\ pairs[k][1] = row.Dominant_Topic
                    /\ \A m \in 1..Len(pairs) : pairs[m][2] <= pairs[k][2]
                    /\ row.Topic_Perc_Contrib % 10 = 0
                    /\ row.Topic_Perc_Contrib - pairs[k][2] \in -5..5

\* C8: for every corpus, also one with a document for which inference
\* returns no pair, the table format_topics_sentences returns has one row
\* per document, row i with Document_No i, a topic of maximal proportion of
\* document i, that proportion rounded to 4 decimals, and the text of
\* document i.
C8_TableAligned == df.ok => FrameContract

----------------------------------------------------------------------------
(* C9, C10: the indices of the visualization loops *)

PanelKinds ==
    {"makeWordsPerDocVisualization", "makeWordCloudVisualization",
     "makeWordWeightImportanceVisualization"}

\* C9: for a model of 12 topics each of the three panel loops computes a
\* topic index in 0..11 for every panel, visits 0..11 once each in rising
\* order (2 figures of 6 panels, or 3 figures of 4), and indexes neither
\* the list of topics nor the palette out of range.
C9_PanelIndices ==
    (out.kind \in PanelKinds /\ lda_model.num_topics = 12) =>
        LET per == IF out.kind = "makeWordsPerDocVisualization" THEN 6 ELSE 4
        IN  /\ ~out.fault
            /\ Len(out.panels) = 12
            /\ \A p \in 1..Len(out.panels) :
                  /\ out.panels[p].idx = p - 1
                  /\ out.panels[p].idx \in 0..11
                  /\ out.panels[p].fig = (p - 1) \div per
                  /\ out.panels[p].idx = ((p - 1) % per) + per * out.panels[p].fig
                  /\ out.panels[p].colour \in 0..(PaletteLen - 1)
                  /\ out.kind = "makeWordCloudVisualization" =>
                        out.panels[p].topic_ix \in
                            0..(Len(show_topics(lda_model, 12)) - 1)

\* the word clouds of a 12-topic model, all 12 panels drawn
C9_Witness ==
    /\ out.kind = "makeWordCloudVisualization"
    /\ lda_model.num_topics = 12
    /\ Len(out.panels) = 12
    /\ out.panels[12].topic_ix = 11

\* C10: in sentences_chart, for a model of 12 topics and a corpus of at
\* least end-1 documents, every index is in range (the palette index of the
\* frame, the palette index of every word, the document index of panel i),
\* so that exactly the documents start..end-2 are drawn, one per panel.
\* Stated for the corpora in which every document got at least one pair.
C10_ChartIndicesInRange ==
    (/\ out.kind = "sentences_chart"
     /\ lda_model.num_topics = 12
     /\ out.end - out.start >= 2
     /\ Len(corpus) >= out.end - 1
     /\ EveryDocHasPair) =>
        /\ ~out.fault
        /\ Len(out.panels) = out.end - out.start - 1
        /\ \A i \in 1..Len(out.panels) :
              /\ out.panels[i].doc = out.start + i - 1
              /\ out.panels[i].frame \in 0..(PaletteLen - 1)
              /\ \A j \in 1..Len(out.panels[i].words) :
                    out.panels[i].words[j] \in 0..(PaletteLen - 1)

----------------------------------------------------------------------------
(* C7: the tokenizer *)

dogs == <<"d", "o", "g", "s">>
running == <<"r", "u", "n", "n", "i", "n", "g">>

\* what C7 says of the run, with Forbidden the characters no token holds
TokenizerContract(Forbidden) ==
    tok_pc = "done" =>
        /\ Len(tok_out) = Len(sentences)
        /\ \A i \in 1..Len(sentences) :
              /\ CharsOf(tok_out[i]) \cap Forbidden = {}
              /\ \A t \in Range(tok_out[i]) : t # <<>>
              /\ OccursInOrder(tok_out[i], Normalize(sentences[i]), 1)
              /\ (\A j \in 1..Len(sentences[i]) : ~IsWordChar(sentences[i][j]))
                    => tok_out[i] = <<>>
              /\ sentences[i] = DogsRunning => tok_out[i] = <<dogs, running>>

----------------------------------------------------------------------------
(* C4: create_tagged_documents *)

\* the characters of a line that are no whitespace, in order
NonSpace(line) == SelectSeq(line, LAMBDA c : c \notin Whitespace)

\* C4: one tagged document per line of vocab["data"], in line order; the
\* i-th (from 0) has the single tag i and exactly the whitespace-separated
\* words of line i, none carried over from an earlier line; a line without
\* words yields a tagged document with no words and takes a tag.
C4_TaggedDocuments ==
    d2v_pc \notin {"idle", "start"} =>
        /\ Len(train_data) = Len(vocab1)
        /\ \A k \in 1..Len(vocab1) :
              /\ train_data[k].tags = <<k - 1>>
              /\ train_data[k].words = Split(vocab1[k])
              /\ Flatten(train_data[k].words) = NonSpace(vocab1[k])
              /\ \A w \in Range(train_data[k].words) :
                    w # <<>> /\ Range(w) \cap Whitespace = {}

\* a line of two words followed by a line without words
C4_Witness ==
    /\ d2v_pc = "tagged"
    /\ Len(vocab1) >= 2
    /\ \E k \in 1..(Len(vocab1) - 1) :
          /\ Len(train_data[k].words) = 2
          /\ train_data[k + 1].words = <<>>
          /\ train_data[k + 1].tags = <<k>>

----------------------------------------------------------------------------
(* C5: the order of the steps of the embedding trainer script *)

\* C5: the tagged documents are built, the vocabulary is built from them,
\* the model is trained on them, the trained model is saved and then loaded
\* back: the model that is saved and the model that is loaded are trained.
C5_TrainedBeforeSave ==
    /\ d2v_pc \in {"saved", "loaded"} =>
          /\ disk.vocab_built
          /\ disk.corpus_count = Len(train_data)
          /\ disk.trained
    /\ d2v_pc = "loaded" => model_stored = disk /\ model_stored.trained

====
